---- MODULE Spec2Model ----
(***************************************************************************)
(* Model of src/app.py, the travel itinerary planner.                      *)
(*                                                                         *)
(* Strings are sequences of fragments: a literal of the source is one      *)
(* fragment, a user-entered string is a sequence of one-character          *)
(* fragments, and an f-string or str.format is the concatenation of its    *)
(* parts.  Non-ASCII characters of the source's literals are written in    *)
(* ASCII here (an en dash as "-", the degree sign dropped).                *)
(***************************************************************************)
EXTENDS Integers, Sequences, FiniteSets, TLC

VARIABLES
    \* get_budget_tip / get_travel_advice
    budget, budget_tip, adv_destination, month, weather, language,
    \* create_global_pool
    tasks, fallback_list, required, unique_tasks, pool_pc,
    \* generate_groups_from_global_pool
    global_pool, days, picked, sampled_tasks, groups, sample_pc,
    \* generate_dynamic_fallback
    fb_destination, count, fallbacks, attempts, fb_result, fb_pc,
    \* the "Generate Itinerary" handler: the form's values, the script's globals,
    \* the locals of fetch_itinerary_from_wiki, the HTTP response received, the
    \* number of HTTP requests sent and the messages shown (st.error, st.warning)
    destination, duration, start_location, gen_pc, requests_sent, received, ui,
    candidate_tasks, top_fallback_list, top_global_pool, itinerary

advVars == <<budget, budget_tip, adv_destination, month, weather, language>>
poolVars == <<tasks, fallback_list, required, unique_tasks, pool_pc>>

sampleVars == <<global_pool, days, picked, sampled_tasks, groups, sample_pc>>

fbVars == <<fb_destination, count, fallbacks, attempts, fb_result, fb_pc>>

genVars ==
    <<destination, duration, start_location, gen_pc, requests_sent, received, ui,
      candidate_tasks, top_fallback_list, top_global_pool, itinerary>>

vars == <<advVars, poolVars, sampleVars, fbVars, genVars>>

\* Each specification below runs one part of the program; the variables of the
\* other parts rest at these values.
AdvIdle ==
    /\ budget = 0
    /\ budget_tip = <<>>
    /\ adv_destination = <<>>
    /\ month = 1
    /\ weather = <<>>
    /\ language = <<>>

PoolIdle ==
    /\ tasks = <<>>
    /\ fallback_list = <<>>
    /\ required = 0
    /\ unique_tasks = <<>>
    /\ pool_pc = "idle"

SampleIdle ==
    /\ global_pool = <<>>
    /\ days = 0
    /\ picked = {}
    /\ sampled_tasks = <<>>
    /\ groups = <<>>
    /\ sample_pc = "idle"

FbIdle ==
    /\ fb_destination = <<>>
    /\ count = 0
    /\ fallbacks = {}
    /\ attempts = 0
    /\ fb_result = <<>>
    /\ fb_pc = "idle"

NoResponse == [status |-> "none", shape |-> "none", type |-> "none", elems |-> <<>>]

GenIdle ==
    /\ destination = <<>>
    /\ duration = 1
    /\ start_location = <<>>
    /\ gen_pc = "idle"
    /\ requests_sent = 0
    /\ received = NoResponse
    /\ ui = <<>>
    /\ candidate_tasks = <<>>
    /\ top_fallback_list = <<>>
    /\ top_global_pool = <<>>
    /\ itinerary = <<>>

-----------------------------------------------------------------------------
(* Strings *)

Paris == <<"P", "a", "r", "i", "s">>
Tokyo == <<"T", "o", "k", "y", "o">>
NewYork == <<"N", "e", "w", " ", "Y", "o", "r", "k">>
Goa == <<"G", "o", "a">>
Rome == <<"R", "o", "m", "e">>
Empty == <<>>

\* s contains t as a contiguous run of fragments (Python's `t in s`).
Contains(s, t) ==
    \E i \in 1..(Len(s) + 1) :
        /\ i + Len(t) - 1 <= Len(s)
        /\ SubSeq(s, i, i + Len(t) - 1) = t

Range(s) == {s[i] : i \in 1..Len(s)}

NoDuplicates(s) == \A i, j \in 1..Len(s) : s[i] = s[j] => i = j

-----------------------------------------------------------------------------
(* get_budget_tip *)

LowTip == <<"Opt for budget-friendly dining, public transport, and free attractions.">>
MidTip == <<"Mix economical choices with occasional splurges on well-reviewed experiences.">>
PremiumTip == <<"Enjoy premium experiences, fine dining, and exclusive guided tours.">>

get_budget_tip_lowonly(b) ==
    IF b <= 30000 THEN LowTip
    ELSE IF b < 70000 THEN MidTip
    ELSE PremiumTip

get_budget_tip(b) ==
    IF b < 30000 THEN LowTip
    ELSE IF b < 70000 THEN MidTip
    ELSE PremiumTip

-----------------------------------------------------------------------------
(* get_travel_advice *)

MonthName ==
    <<"January", "February", "March", "April", "May", "June", "July",
      "August", "September", "October", "November", "December">>

ParisLanguage == <<"French is the official language. Basic phrases like 'Bonjour', 'Merci', and 'Au revoir' are very useful.">>
TokyoLanguage == <<"Japanese is the primary language. Learning phrases like 'Konnichiwa' and 'Arigatou' can enhance your trip.">>
NewYorkLanguage == <<"English is the primary language.">>
GoaLanguage == <<"English is widely spoken along with Konkani. Basic English usually suffices.">>

in_winter_typo(m) == m \in {12, 1, 3}

in_winter(m) == m \in {12, 1, 2}

in_spring(m) == m \in {3, 4, 5}

in_summer(m) == m \in {6, 7, 8}

ParisWeather(m, mn) ==
    IF in_winter(m) THEN <<"In ", mn, ", Paris is wintry (around 5-10C) - pack heavy, warm clothing.">>
    ELSE IF in_spring(m) THEN <<"In ", mn, ", Paris enjoys mild spring weather (10-15C) with occasional rain - bring a light jacket and umbrella.">>
    ELSE IF in_summer(m) THEN <<"In ", mn, ", Paris is pleasantly warm (20-25C) though evenings can be cool - opt for light clothing and a sweater.">>
    ELSE <<"In ", mn, ", Paris is cool and sometimes rainy (10-15C) - layering is advisable.">>

TokyoWeather(m, mn) ==
    IF in_winter(m) THEN <<"During ", mn, ", Tokyo can be chilly (5-10C) - pack warm layers.">>
    ELSE IF in_spring(m) THEN <<"In ", mn, ", Tokyo enjoys mild weather (10-18C) with some rain - dress in layers and carry an umbrella.">>
    ELSE IF in_summer(m) THEN <<"In ", mn, ", Tokyo is hot and humid (25-30C) - wear light, breathable clothing and use sunscreen.">>
    ELSE <<"In ", mn, ", Tokyo's weather is mild with occasional showers (15-20C) - a light jacket is sufficient.">>

NewYorkWeather(m, mn) ==
    IF in_winter(m) THEN <<"New York in ", mn, " is cold (-2C to 5C) - heavy winter attire is a must.">>
    ELSE IF in_spring(m) THEN <<"In ", mn, ", New York is mild (10-18C) but can be unpredictable - dress in layers and bring a raincoat.">>
    ELSE IF in_summer(m) THEN <<mn, " in New York is hot and humid (25-30C) - wear light clothing and stay hydrated.">>
    ELSE <<"During ", mn, ", New York has moderate temperatures (10-20C) - layered clothing is recommended.">>

GoaWeather(m, mn) ==
    IF in_winter(m) THEN <<"In ", mn, ", Goa is cooler (20-25C) and ideal for sightseeing - pack a light jacket for evenings.">>
    ELSE IF in_spring(m) THEN <<mn, " in Goa is warm (25-30C) and dry - opt for very light, breathable clothing.">>
    ELSE IF in_summer(m) THEN <<"During ", mn, ", Goa is hot and humid (28-33C) with occasional rain - choose ultra-light clothes, use sunscreen, and stay hydrated.">>
    ELSE <<"In ", mn, ", Goa is pleasantly warm (25-30C) with a chance of brief showers - pack accordingly.">>

GenericWeather(d, mn) ==
    <<"Weather in ">> \o d \o <<" during ", mn, " can be variable - please check the forecast and pack accordingly.">>

GenericLanguage(d) ==
    <<"Local languages in ">> \o d \o <<" may vary - consider learning a few basic phrases or using a translation app.">>

\* The pair (weather, language) the function returns.
get_travel_advice(d, m) ==
    LET month_name == MonthName[m] IN
    IF d = Paris THEN <<ParisWeather(m, month_name), ParisLanguage>>
    ELSE IF d = Tokyo THEN <<TokyoWeather(m, month_name), TokyoLanguage>>
    ELSE IF d = NewYork THEN <<NewYorkWeather(m, month_name), NewYorkLanguage>>
    ELSE IF d = Goa THEN <<GoaWeather(m, month_name), GoaLanguage>>
    ELSE <<GenericWeather(d, month_name), GenericLanguage(d)>>

-----------------------------------------------------------------------------
(* Specification SpecAdvice: the two pure lookups applied to drawn inputs *)

BudgetSpread == 2
Thresholds == {30000, 70000}
Budgets ==
    {t + k : t \in Thresholds, k \in (0 - BudgetSpread)..BudgetSpread}
        \cup {0 - 1, 0, 5000, 20000, 50000, 90000, 100000}

PresetNames == {Paris, Tokyo, NewYork, Goa}
AdviceDestinations == PresetNames \cup {Empty, Rome, <<"g", "o", "a">>}

Unset == <<>>

AdvInit ==
    /\ budget \in Budgets
    /\ adv_destination \in AdviceDestinations
    /\ month \in 1..12
    /\ budget_tip = Unset
    /\ weather = Unset
    /\ language = Unset
    /\ PoolIdle
    /\ SampleIdle
    /\ FbIdle
    /\ GenIdle

CallBudgetTip ==
    /\ budget_tip = Unset
    /\ budget_tip' = get_budget_tip(budget)
    /\ UNCHANGED <<budget, adv_destination, month, weather, language>>
    /\ UNCHANGED <<poolVars, sampleVars, fbVars, genVars>>

CallTravelAdvice ==
    /\ weather = Unset
    /\ LET r == get_travel_advice(adv_destination, month) IN
        /\ weather' = r[1]
        /\ language' = r[2]
    /\ UNCHANGED <<budget, adv_destination, month, budget_tip>>
    /\ UNCHANGED <<poolVars, sampleVars, fbVars, genVars>>

NextAdvice == CallBudgetTip \/ CallTravelAdvice

SpecAdvice == AdvInit /\ [][NextAdvice]_vars

-----------------------------------------------------------------------------
(* Claims about get_budget_tip and get_travel_advice *)

\* C8: get_budget_tip maps a budget below 30000 to the low-budget message, a
\* budget from 30000 up to 69999 to the mid-budget message and a budget of 70000
\* or more to the premium message, and the three messages differ.
C8_BudgetTipThresholds ==
    budget_tip # Unset =>
        /\ budget < 30000 => budget_tip = LowTip
        /\ (30000 <= budget /\ budget < 70000) => budget_tip = MidTip
        /\ budget >= 70000 => budget_tip = PremiumTip
        /\ Cardinality({LowTip, MidTip, PremiumTip}) = 3

\* The tip was computed for a budget that sits exactly on a threshold.
C8_Witness ==
    \/ budget = 30000 /\ budget_tip = MidTip
    \/ budget = 70000 /\ budget_tip = PremiumTip

Bucket(m) ==
    IF m \in {12, 1, 2} THEN "winter"
    ELSE IF m \in {3, 4, 5} THEN "spring"
    ELSE IF m \in {6, 7, 8} THEN "summer"
    ELSE "autumn"

\* The text with the month name blanked out.
StripMonth(w, mn) == [i \in 1..Len(w) |-> IF w[i] = mn THEN "{month}" ELSE w[i]]

\* C9: for the four preset destinations the weather text names the month and is
\* the same text (up to the month name) exactly for the months of the same
\* bucket (12,1,2 / 3,4,5 / 6,7,8 / 9,10,11), and the language text is the same for
\* every month; Paris in July gives the 20-25C text and the French phrases, Paris
\* in January the wintry text; every other destination (the empty one included)
\* gets the generic texts, which name the month and the destination.
C9_AdviceLookup ==
    weather # Unset =>
        LET d == adv_destination
            mn == MonthName[month]
        IN  /\ d \in PresetNames =>
                /\ mn \in Range(weather)
                /\ \A m2 \in 1..12 :
                    LET r2 == get_travel_advice(d, m2) IN
                    /\ (Bucket(m2) = Bucket(month))
                          <=> (StripMonth(r2[1], MonthName[m2]) = StripMonth(weather, mn))
                    /\ r2[2] = language
                /\ \A d2 \in PresetNames \ {d} :
                    get_travel_advice(d2, month)[1] # weather
            /\ (d = Paris /\ month = 7) =>
                /\ weather = <<"In ", "July", ", Paris is pleasantly warm (20-25C) though evenings can be cool - opt for light clothing and a sweater.">>
                /\ language = ParisLanguage
            /\ (d = Paris /\ month = 1) =>
                weather = <<"In ", "January", ", Paris is wintry (around 5-10C) - pack heavy, warm clothing.">>
            /\ d \notin PresetNames =>
                /\ mn \in Range(weather)
                /\ Contains(weather, d)
                /\ Contains(language, d)
                /\ weather = <<"Weather in ">> \o d \o <<" during ", mn, " can be variable - please check the forecast and pack accordingly.">>
                /\ language = <<"Local languages in ">> \o d \o <<" may vary - consider learning a few basic phrases or using a translation app.">>

\* The advice was looked up for a preset destination in the last winter month
\* and for the empty destination.
C9_Witness ==
    /\ weather # Unset
    /\ \/ adv_destination = Goa /\ month = 2
       \/ adv_destination = Empty /\ month = 11

-----------------------------------------------------------------------------
(* create_global_pool *)

\* `x not in lst`
not_in_always(x, lst) == TRUE

not_in(x, lst) == x \notin Range(lst)

\* The for loop of lines 68-71: copy in order, first occurrence wins.
RECURSIVE DedupFrom(_, _)
DedupFrom(acc, rest) ==
    IF rest = <<>> THEN acc
    ELSE DedupFrom(IF not_in(Head(rest), acc) THEN Append(acc, Head(rest)) ELSE acc,
                   Tail(rest))

Dedup(lst) == DedupFrom(<<>>, lst)

\* One iteration of the while loop of lines 72-75 that drew `candidate`.
PadWith_append_always(u, candidate) == Append(u, candidate)

PadWith(u, candidate) ==
    IF not_in(candidate, u) THEN Append(u, candidate) ELSE u

(* Specification SpecPool: create_global_pool on drawn arguments *)

MaxTasks == 2
MaxFallback == 3
MaxRequired == 3
Items == {"a", "b", "c"}

SeqsUpTo(S, n) == UNION {[1..k -> S] : k \in 0..n}

PoolInit ==
    /\ tasks \in SeqsUpTo(Items, MaxTasks)
    /\ fallback_list \in SeqsUpTo(Items, MaxFallback)
    /\ required \in 0..MaxRequired
    /\ unique_tasks = <<>>
    /\ pool_pc = "dedup"
    /\ AdvIdle
    /\ SampleIdle
    /\ FbIdle
    /\ GenIdle

\* lines 68-71
PoolDedup ==
    /\ pool_pc = "dedup"
    /\ unique_tasks' = Dedup(tasks)
    /\ pool_pc' = "pad"
    /\ UNCHANGED <<tasks, fallback_list, required>>
    /\ UNCHANGED <<advVars, sampleVars, fbVars, genVars>>

\* lines 72-75, random.randrange(len(fallback_list)) returning i - 1
PadPick(i) ==
    /\ pool_pc = "pad"
    /\ Len(unique_tasks) < required
    /\ i \in 1..Len(fallback_list)
    /\ unique_tasks' = PadWith(unique_tasks, fallback_list[i])
    /\ UNCHANGED <<tasks, fallback_list, required, pool_pc>>
    /\ UNCHANGED <<advVars, sampleVars, fbVars, genVars>>

\* line 73 on an empty fallback list: random.randrange(0) raises ValueError
PadRaise ==
    /\ pool_pc = "pad"
    /\ Len(unique_tasks) < required
    /\ Len(fallback_list) = 0
    /\ pool_pc' = "raised"
    /\ UNCHANGED <<tasks, fallback_list, required, unique_tasks>>
    /\ UNCHANGED <<advVars, sampleVars, fbVars, genVars>>

\* line 76
PoolReturn ==
    /\ pool_pc = "pad"
    /\ ~(Len(unique_tasks) < required)
    /\ pool_pc' = "returned"
    /\ UNCHANGED <<tasks, fallback_list, required, unique_tasks>>
    /\ UNCHANGED <<advVars, sampleVars, fbVars, genVars>>

NextPool ==
    \/ PoolDedup
    \/ \E i \in 1..MaxFallback : PadPick(i)
    \/ PadRaise
    \/ PoolReturn

SpecPool == PoolInit /\ [][NextPool]_vars

\* The program keeps running, and the random index takes every value again and
\* again (each value has probability 1/len at every draw).
SpecPoolFair ==
    /\ PoolInit
    /\ [][NextPool]_vars
    /\ WF_vars(PoolDedup)
    /\ WF_vars(PadRaise)
    /\ WF_vars(PoolReturn)
    /\ \A i \in 1..MaxFallback : WF_vars(PadPick(i))

-----------------------------------------------------------------------------
(* Claims about create_global_pool *)

Max(a, b) == IF a >= b THEN a ELSE b

\* C1 as stated: the returned pool has no duplicates and has exactly `required`
\* strings.
C1_ExactlyRequired ==
    pool_pc = "returned" =>
        /\ NoDuplicates(unique_tasks)
        /\ Len(unique_tasks) = required

\* C1, amended: the returned pool has no duplicates, holds every candidate, and
\* its length is `required` when the candidates hold at most `required` distinct
\* strings and the number of distinct candidates otherwise.
C1_PoolSize ==
    pool_pc = "returned" =>
        /\ NoDuplicates(unique_tasks)
        /\ Range(tasks) \subseteq Range(unique_tasks)
        /\ Range(unique_tasks) \subseteq Range(tasks) \cup Range(fallback_list)
        /\ Len(unique_tasks) = Max(required, Cardinality(Range(tasks)))

\* A call with duplicate candidates that had to be padded from the fallback list
\* has returned.
C1_Witness ==
    /\ pool_pc = "returned"
    /\ ~NoDuplicates(tasks)
    /\ Len(unique_tasks) = required
    /\ Range(unique_tasks) # Range(tasks)

\* How many strings the padding loop has to add, the fallback strings it can
\* add, and the two conditions of C6: the fallback list has fewer unique strings
\* than are needed; it has enough unique strings that are not candidates.
Needed == required - Cardinality(Range(tasks))
Fresh == Range(fallback_list) \ Range(tasks)
Insufficient == Cardinality(Fresh) < Needed
TooFewUnique == Cardinality(Range(fallback_list)) < Needed

\* C6 as stated: with fewer unique fallback strings than are needed the call
\* neither returns nor raises, the empty fallback list included.
C6_NeverEnds ==
    TooFewUnique => pool_pc \notin {"returned", "raised"}

\* C6, amended: with fewer unique fallback strings than are needed the call never
\* returns; it loops forever when the fallback list is not empty, and raises
\* (ValueError from random.randrange(0)) when it is empty; with enough unique
\* fallback strings that are not candidates it returns under fair random choice.
C6_Termination ==
    /\ [](TooFewUnique => pool_pc # "returned")
    /\ []((TooFewUnique /\ fallback_list # <<>>) => pool_pc # "raised")
    /\ (TooFewUnique /\ fallback_list = <<>>) ~> (pool_pc = "raised")
    /\ (~Insufficient) ~> (pool_pc = "returned")

\* The loop is spinning on a non-empty fallback list that cannot fill the pool.
C6_Witness ==
    /\ TooFewUnique
    /\ fallback_list # <<>>
    /\ pool_pc = "pad"
    /\ Len(unique_tasks) = Cardinality(Range(tasks) \cup Range(fallback_list))
    /\ Len(unique_tasks) > Cardinality(Range(tasks))

-----------------------------------------------------------------------------
(* generate_groups_from_global_pool *)

TasksPerDay == 3

\* Python's s[a:b] for 0 <= a <= b.
Slice(s, a, b) == SubSeq(s, a + 1, IF b <= Len(s) THEN b ELSE Len(s))

\* random.sample draws positions of the population without replacement: the
\* positions (1-based) the next draw can take.
Selectable_with_replacement(n, taken) == 1..n

Selectable(n, taken) == (1..n) \ taken

\* line 85
SplitGroups(sampled, d, tasks_per_day) ==
    [i \in 1..d |-> Slice(sampled, (i - 1) * tasks_per_day, i * tasks_per_day)]

(* Specification SpecSample: generate_groups_from_global_pool on drawn arguments *)

MaxPool == 7
MaxDays == 2

PoolItem(i) == <<"activity", i>>

\* A pool without duplicates, and one in which every string occurs twice.
DistinctPool(n) == [i \in 1..n |-> PoolItem(i)]
DoubledPool(n) == [i \in 1..n |-> PoolItem((i + 1) \div 2)]

SampleInit ==
    /\ global_pool \in {DistinctPool(n) : n \in 0..MaxPool}
                          \cup {DoubledPool(n) : n \in 2..MaxPool}
    /\ days \in 0..MaxDays
    /\ picked = {}
    /\ sampled_tasks = <<>>
    /\ groups = <<>>
    /\ sample_pc = "sample"
    /\ AdvIdle
    /\ PoolIdle
    /\ FbIdle
    /\ GenIdle

\* line 84: random.sample raises ValueError when the sample is larger than the
\* population
SampleRaise ==
    /\ sample_pc = "sample"
    /\ days * TasksPerDay > Len(global_pool)
    /\ sample_pc' = "raised"
    /\ UNCHANGED <<global_pool, days, picked, sampled_tasks, groups>>
    /\ UNCHANGED <<advVars, poolVars, fbVars, genVars>>

\* line 84: one draw of random.sample
SampleDraw(i) ==
    /\ sample_pc = "sample"
    /\ days * TasksPerDay <= Len(global_pool)
    /\ Len(sampled_tasks) < days * TasksPerDay
    /\ i \in Selectable(Len(global_pool), picked)
    /\ picked' = picked \cup {i}
    /\ sampled_tasks' = Append(sampled_tasks, global_pool[i])
    /\ UNCHANGED <<global_pool, days, groups, sample_pc>>
    /\ UNCHANGED <<advVars, poolVars, fbVars, genVars>>

\* lines 85-86
SampleSplit ==
    /\ sample_pc = "sample"
    /\ days * TasksPerDay <= Len(global_pool)
    /\ Len(sampled_tasks) = days * TasksPerDay
    /\ groups' = SplitGroups(sampled_tasks, days, TasksPerDay)
    /\ sample_pc' = "returned"
    /\ UNCHANGED <<global_pool, days, picked, sampled_tasks>>
    /\ UNCHANGED <<advVars, poolVars, fbVars, genVars>>

NextSample ==
    \/ SampleRaise
    \/ \E i \in 1..MaxPool : SampleDraw(i)
    \/ SampleSplit

SpecSample == SampleInit /\ [][NextSample]_vars

-----------------------------------------------------------------------------
(* Claims about generate_groups_from_global_pool *)

RECURSIVE Flatten(_)
Flatten(gs) == IF gs = <<>> THEN <<>> ELSE Head(gs) \o Flatten(Tail(gs))

\* C2: for days >= 1 and a duplicate-free pool of at least 3*days strings the
\* call does not raise, and it returns exactly `days` groups of exactly 3
\* activities, the 3*days activities being pairwise distinct strings of the pool.
C2_GroupsDistinct ==
    (days >= 1 /\ NoDuplicates(global_pool) /\ Len(global_pool) >= 3 * days) =>
        /\ sample_pc # "raised"
        /\ sample_pc = "returned" =>
            /\ Len(groups) = days
            /\ \A d \in 1..Len(groups) : Len(groups[d]) = 3
            /\ NoDuplicates(Flatten(groups))
            /\ Cardinality(Range(Flatten(groups))) = 3 * days
            /\ Range(Flatten(groups)) \subseteq Range(global_pool)

\* Two days were drawn from a duplicate-free pool that is larger than the sample.
C2_Witness ==
    /\ sample_pc = "returned"
    /\ days = 2
    /\ NoDuplicates(global_pool)
    /\ Len(global_pool) > 3 * days
    /\ Len(groups) = 2

-----------------------------------------------------------------------------
(* generate_dynamic_fallback *)

\* The replacement field "{}" of a template.
Hole == "{}"

templates ==
    << <<"Explore local art galleries in ", Hole>>,
       <<"Attend a live music concert in ", Hole>>,
       <<"Experience a local music festival in ", Hole>>,
       <<"Relax in a scenic park in ", Hole>>,
       <<"Visit a quirky museum in ", Hole>>,
       <<"Discover historical heritage at a museum in ", Hole>>,
       <<"Shop at local markets in ", Hole>>,
       <<"Browse boutique shops in ", Hole>>,
       <<"Join a guided historical tour in ", Hole>>,
       <<"Take a local cooking class in ", Hole>>,
       <<"Discover hidden alleys in ", Hole>>,
       <<"Stroll along the coastline in ", Hole>>,
       <<"Enjoy an evening cruise in ", Hole>>,
       <<"Attend an art exhibition in ", Hole>>,
       <<"Join a street art tour in ", Hole>>,
       <<"Visit an open-air festival in ", Hole>>,
       <<"Savor regional street food in ", Hole>>,
       <<"Take a bicycle tour in ", Hole>>,
       <<"Join a cultural workshop in ", Hole>>,
       <<"Discover local handicrafts in ", Hole>> >>

adjectives ==
    <<"amazing", "unforgettable", "charming", "historic", "vibrant", "quaint",
      "dynamic", "bustling", "splendid", "exciting", "remarkable">>

\* tpl.format(arg): every replacement field of tpl becomes arg.
RECURSIVE Format(_, _)
Format(tpl, arg) ==
    IF tpl = <<>> THEN <<>>
    ELSE (IF Head(tpl) = Hole THEN arg ELSE <<Head(tpl)>>) \o Format(Tail(tpl), arg)

\* line 42: the prefix for adjective number a, or none (a = 0) when
\* random.random() >= 0.6.
Prefix(a) == IF a = 0 THEN <<>> ELSE <<adjectives[a], " ">>

\* lines 41-43
fallback_item(t, a, dest) == Format(templates[t], Prefix(a) \o dest)

AttemptsFactor == 10

\* line 40
loop_condition_inclusive(n, cnt, att) == n <= cnt /\ att < cnt * AttemptsFactor

loop_condition_late(n, cnt, att) == n < cnt /\ att <= cnt * AttemptsFactor

loop_condition(n, cnt, att) == n < cnt /\ att < cnt * AttemptsFactor

\* list(fallbacks): the elements of the set, each once, in an order the set
\* fixes.
RECURSIVE SetToSeq(_)
SetToSeq(S) ==
    IF S = {} THEN <<>>
    ELSE LET x == CHOOSE y \in S : TRUE IN <<x>> \o SetToSeq(S \ {x})

(* Specification SpecFallback: generate_dynamic_fallback on drawn arguments.  *)
(* random.choice draws among the first NumTemplates templates and the first   *)
(* NumAdjectives adjectives.                                                  *)

NumTemplates == 3
NumAdjectives == 2
MaxCount == 3

Min(a, b) == IF a <= b THEN a ELSE b

TemplateChoices == 1..Min(NumTemplates, Len(templates))
AdjectiveChoices == 0..Min(NumAdjectives, Len(adjectives))

FbDestinations == {Empty, Goa, Rome}

FbInit ==
    /\ fb_destination \in FbDestinations
    /\ count \in 0..MaxCount
    /\ fallbacks = {}
    /\ attempts = 0
    /\ fb_result = <<>>
    /\ fb_pc = "loop"
    /\ AdvIdle
    /\ PoolIdle
    /\ SampleIdle
    /\ GenIdle

\* lines 40-45: one iteration, with template t and adjective a (0: no prefix)
FallbackDraw(t, a) ==
    /\ fb_pc = "loop"
    /\ loop_condition(Cardinality(fallbacks), count, attempts)
    /\ fallbacks' = fallbacks \cup {fallback_item(t, a, fb_destination)}
    /\ attempts' = attempts + 1
    /\ UNCHANGED <<fb_destination, count, fb_result, fb_pc>>
    /\ UNCHANGED <<advVars, poolVars, sampleVars, genVars>>

\* line 46
FallbackReturn ==
    /\ fb_pc = "loop"
    /\ ~loop_condition(Cardinality(fallbacks), count, attempts)
    /\ fb_result' = SetToSeq(fallbacks)
    /\ fb_pc' = "returned"
    /\ UNCHANGED <<fb_destination, count, fallbacks, attempts>>
    /\ UNCHANGED <<advVars, poolVars, sampleVars, genVars>>

NextFallback ==
    \/ \E t \in TemplateChoices, a \in AdjectiveChoices : FallbackDraw(t, a)
    \/ FallbackReturn

SpecFallback == FbInit /\ [][NextFallback]_vars

(* Specification SpecFallbackFair: the same call for one destination, which the *)
(* interpreter keeps running until it returns.  The loop condition of line 40   *)
(* reads the number of strings collected and the number of draws, never the     *)
(* destination's text.                                                          *)

FbFairInit ==
    /\ FbInit
    /\ fb_destination = Goa

SpecFallbackFair == FbFairInit /\ [][NextFallback]_vars /\ WF_vars(NextFallback)

-----------------------------------------------------------------------------
(* Claims about generate_dynamic_fallback *)

\* A template of the fixed list with its trailing replacement field replaced.
Instantiated(x) ==
    {SubSeq(templates[t], 1, Len(templates[t]) - 1) \o x : t \in 1..Len(templates)}

OptionalAdjective ==
    {<<>>} \cup {<<adjectives[a], " ">> : a \in 1..Len(adjectives)}

\* C7: generate_dynamic_fallback(destination, N) returns at most N strings, all
\* pairwise distinct, each containing the destination and each equal to one of
\* the fixed templates instantiated with the destination, optionally prefixed by
\* one of the fixed adjectives and a space.
C7_FallbackStrings ==
    fb_pc = "returned" =>
        /\ Len(fb_result) <= count
        /\ NoDuplicates(fb_result)
        /\ \A i \in 1..Len(fb_result) :
            /\ Contains(fb_result[i], fb_destination)
            /\ \E p \in OptionalAdjective :
                fb_result[i] \in Instantiated(p \o fb_destination)

\* A call for several strings has returned for the empty destination, and one
\* has returned a string with an adjective.
C7_Witness ==
    /\ fb_pc = "returned"
    /\ count >= 2
    /\ Len(fb_result) = count
    /\ \/ fb_destination = Empty
       \/ \E i \in 1..Len(fb_result) : "amazing" \in Range(fb_result[i])

\* C11: generate_dynamic_fallback(destination, N) terminates whatever the random
\* draws are; it never makes more than 10*N draws; it returns fewer than N
\* strings only after exactly 10*N draws; and it draws no more once N unique
\* strings have been collected.
C11_BoundedDraws ==
    /\ <>(fb_pc = "returned")
    /\ [](attempts <= 10 * count)
    /\ []((fb_pc = "returned" /\ Len(fb_result) < count) => attempts = 10 * count)
    /\ [][Cardinality(fallbacks) >= count => attempts' = attempts]_vars

\* A call for several strings has used up its draws on repeated strings and
\* returned a short list.
C11_Witness ==
    /\ fb_pc = "returned"
    /\ count >= 2
    /\ fb_result # <<>>
    /\ Len(fb_result) < count
    /\ attempts = 10 * count

-----------------------------------------------------------------------------
(* The "Generate Itinerary" handler, lines 346-442 *)

\* str.lower() and str.strip() on the characters the runs use.
UpperCase == <<"A", "E", "G", "M", "N", "O", "P", "R", "U">>
LowerCase == <<"a", "e", "g", "m", "n", "o", "p", "r", "u">>

lower_char(c) ==
    IF \E i \in 1..Len(UpperCase) : UpperCase[i] = c
    THEN LowerCase[CHOOSE i \in 1..Len(UpperCase) : UpperCase[i] = c]
    ELSE c

lower_identity(s) == s

lower(s) == [i \in 1..Len(s) |-> lower_char(s[i])]

RECURSIVE lstrip(_)
lstrip(s) == IF s # <<>> /\ Head(s) = " " THEN lstrip(Tail(s)) ELSE s

RECURSIVE rstrip(_)
rstrip(s) ==
    IF s # <<>> /\ s[Len(s)] = " " THEN rstrip(SubSeq(s, 1, Len(s) - 1)) ELSE s

strip(s) == rstrip(lstrip(s))

\* preset_itineraries and extra_tasks, lines 189-226 and 350-394.  Only Goa's
\* tables are carried, cut to the first three base points and to the two extra
\* tasks that are also fallback templates (the first and the sixth); the
\* destination is written apart so that the string equals the fallback string
\* with the same characters.
preset_destinations == {Goa}

base_points(d) ==
    << <<"Morning: Relax on Baga Beach and watch a serene sunrise over the Arabian Sea.">>,
       <<"Late Morning: Explore Fort Aguada for its historic charm and coastal views.">>,
       <<"Afternoon: Savor a seafood lunch at a beachside shack.">> >>

extra_tasks(d) ==
    << <<"Explore local art galleries in ">> \o Goa,
       <<"Take a local cooking class in ">> \o Goa >>

\* line 407
global_tasks(d) == SetToSeq(Range(base_points(d) \o extra_tasks(d)))

FallbackCount == 50

\* The HTTP exchange of lines 104-107: what requests.get meets.  An answer is
\*   status: "network_error" | "http_error" | "ok"
\*   shape : of the body: "not_json" | "object" | "number" | "short_array" (fewer
\*           than two elements) | "array" (two elements or more)
\*   type  : of the body's second element: "array" | "string" | "number" | "object"
\*   elems : what iterating the second element yields: the members of an array,
\*           the characters of a string, the keys of an object
\* A JSON number is written as the one-fragment value <<"<number>">>.
NumberValue == <<"<number>">>

Answer(st, sh, ty, el) == [status |-> st, shape |-> sh, type |-> ty, elems |-> el]

FourSuggestions == [i \in 1..4 |-> <<"suggestion ", ToString(i)>>]
RepeatedSuggestions == <<FourSuggestions[1], FourSuggestions[2], FourSuggestions[1]>>

Answers ==
    { Answer("network_error", "-", "-", <<>>),
      Answer("http_error", "array", "array", FourSuggestions),
      Answer("ok", "not_json", "-", <<>>),
      Answer("ok", "object", "-", <<>>),
      Answer("ok", "number", "-", <<>>),
      Answer("ok", "short_array", "-", <<>>),
      Answer("ok", "array", "array", <<>>),
      Answer("ok", "array", "array", RepeatedSuggestions),
      Answer("ok", "array", "array", FourSuggestions),
      Answer("ok", "array", "array", <<FourSuggestions[1], NumberValue>>),
      Answer("ok", "array", "string", <<<<"R">>, <<"o">>, <<"m">>, <<"e">>>>),
      Answer("ok", "array", "number", <<>>),
      Answer("ok", "array", "object", <<<<"k", "e", "y">>>>) }

\* Lines 104-113: the exception raised, or "" and the deduplicated tasks.
raises_nothing_on_http_error(a) == FALSE

raises_on_status(a) == a.status = "http_error"

fetch_exception(a) ==
    IF a.status = "network_error" THEN "ConnectionError"          \* line 104
    ELSE IF raises_on_status(a) THEN "HTTPError"                 \* line 105
    ELSE IF a.shape = "not_json" THEN "JSONDecodeError"           \* line 106
    ELSE IF a.shape = "object" THEN "KeyError"                    \* line 107
    ELSE IF a.shape = "number" THEN "TypeError"                   \* line 107
    ELSE IF a.shape = "short_array" THEN "IndexError"             \* line 107
    ELSE IF a.type = "number" THEN "TypeError"                    \* line 110
    ELSE ""

fetched_tasks(a) == Dedup(a.elems)                                \* lines 107-113

ErrorMessage(exc) == <<"error", "Error fetching live itinerary: ", exc>>
WarningMessage == <<"warning", "No live itinerary found. Using a generic itinerary based on your details.">>

\* lines 118, 411, 419
make_itinerary(gs) == [i \in 1..Len(gs) |-> [Day |-> i, Activities |-> gs[i]]]

departure_message(start, d) == <<"Take a flight from ">> \o start \o <<" to ">> \o d \o <<".">>
return_message(start, d) == <<"Take a flight from ">> \o d \o <<" back to ">> \o start \o <<".">>
budget_line(b) == <<"Budget Tip: ">> \o get_budget_tip(b)

\* line 421
wants_flights(start, d) == strip(start) # <<>> /\ lower(start) # lower(d)

\* lines 421-425
add_flights(it, start, d) ==
    IF wants_flights(start, d)
    THEN LET first == [it EXCEPT ![1].Activities = <<departure_message(start, d)>> \o @]
         IN  [first EXCEPT ![Len(it)].Activities = Append(@, return_message(start, d))]
    ELSE it

\* lines 427-429
add_budget_tip(it, b) ==
    [i \in 1..Len(it) |-> [it[i] EXCEPT !.Activities = Append(@, budget_line(b))]]

\* Calls and returns.  A callee runs in its own variables from the arguments it
\* is given, and its variables rest again once the caller has taken the result.

\* get_fallback_list(d), line 52
CallFallback(d) ==
    /\ fb_destination' = d
    /\ count' = FallbackCount
    /\ fallbacks' = {}
    /\ attempts' = 0
    /\ fb_result' = <<>>
    /\ fb_pc' = "loop"

FallbackDone ==
    /\ fb_destination' = <<>>
    /\ count' = 0
    /\ fallbacks' = {}
    /\ attempts' = 0
    /\ fb_result' = <<>>
    /\ fb_pc' = "idle"

CallPool(t, fl, r) ==
    /\ tasks' = t
    /\ fallback_list' = fl
    /\ required' = r
    /\ unique_tasks' = <<>>
    /\ pool_pc' = "dedup"

PoolDone ==
    /\ tasks' = <<>>
    /\ fallback_list' = <<>>
    /\ required' = 0
    /\ unique_tasks' = <<>>
    /\ pool_pc' = "idle"

CallSample(pool, d) ==
    /\ global_pool' = pool
    /\ days' = d
    /\ picked' = {}
    /\ sampled_tasks' = <<>>
    /\ groups' = <<>>
    /\ sample_pc' = "sample"

SampleDone ==
    /\ global_pool' = <<>>
    /\ days' = 0
    /\ picked' = {}
    /\ sampled_tasks' = <<>>
    /\ groups' = <<>>
    /\ sample_pc' = "idle"

(* Specification SpecGen: one click of "Generate Itinerary".  random.choice   *)
(* draws among GenDraws, (template, adjective) pairs with 0 for no adjective. *)

MaxDuration == 2
GenDestinations == {Goa, Rome, Empty}
GenDraws == {<<1, 0>>, <<1, 1>>, <<9, 0>>, <<10, 0>>}
Pune == <<"P", "u", "n", "e">>
StartLocations == {Empty, <<" ">>, Pune, <<"G", "O", "A">>, <<"r", "o", "m", "e">>}
GenBudgets == {20000, 80000}
GenMonths == {7}

GenInit ==
    /\ destination \in GenDestinations
    /\ duration \in 1..MaxDuration
    /\ start_location = <<>>
    /\ gen_pc = "button"
    /\ requests_sent = 0
    /\ received = NoResponse
    /\ ui = <<>>
    /\ candidate_tasks = <<>>
    /\ top_fallback_list = <<>>
    /\ top_global_pool = <<>>
    /\ itinerary = <<>>
    /\ AdvIdle
    /\ PoolIdle
    /\ SampleIdle
    /\ FbIdle

\* lines 348-408
GenPreset ==
    /\ gen_pc = "button"
    /\ destination \in preset_destinations
    /\ candidate_tasks' = global_tasks(destination)
    /\ CallFallback(destination)
    /\ gen_pc' = "top_fallback"
    /\ UNCHANGED <<destination, duration, start_location, requests_sent, received,
                   ui, top_fallback_list, top_global_pool, itinerary>>
    /\ UNCHANGED <<advVars, poolVars, sampleVars>>

\* lines 413, 94-107 (or 110) and 120-122: the one request, answered by a, raises
GenFetchFail(a) ==
    /\ gen_pc = "button"
    /\ destination \notin preset_destinations
    /\ fetch_exception(a) # ""
    /\ requests_sent' = requests_sent + 1
    /\ received' = a
    /\ ui' = Append(ui, ErrorMessage(fetch_exception(a)))
    /\ itinerary' = <<>>
    /\ gen_pc' = "fetched"
    /\ UNCHANGED <<destination, duration, start_location, candidate_tasks,
                   top_fallback_list, top_global_pool>>
    /\ UNCHANGED <<advVars, poolVars, sampleVars, fbVars>>

\* lines 413 and 94-115: the one request, answered by a, raises nothing
GenFetchOk(a) ==
    /\ gen_pc = "button"
    /\ destination \notin preset_destinations
    /\ fetch_exception(a) = ""
    /\ requests_sent' = requests_sent + 1
    /\ received' = a
    /\ candidate_tasks' = fetched_tasks(a)
    /\ CallFallback(destination)
    /\ gen_pc' = "fetch_fallback"
    /\ UNCHANGED <<destination, duration, start_location, ui, top_fallback_list,
                   top_global_pool, itinerary>>
    /\ UNCHANGED <<advVars, poolVars, sampleVars>>

\* lines 115-116
GenFetchPool ==
    /\ gen_pc = "fetch_fallback"
    /\ fb_pc = "returned"
    /\ CallPool(candidate_tasks, fb_result, duration * 3)
    /\ FallbackDone
    /\ gen_pc' = "fetch_pool"
    /\ UNCHANGED <<destination, duration, start_location, requests_sent, received,
                   ui, candidate_tasks, top_fallback_list, top_global_pool, itinerary>>
    /\ UNCHANGED <<advVars, sampleVars>>

\* lines 116-117
GenFetchSample ==
    /\ gen_pc = "fetch_pool"
    /\ pool_pc = "returned"
    /\ CallSample(unique_tasks, duration)
    /\ PoolDone
    /\ gen_pc' = "fetch_sample"
    /\ UNCHANGED <<destination, duration, start_location, requests_sent, received,
                   ui, candidate_tasks, top_fallback_list, top_global_pool, itinerary>>
    /\ UNCHANGED <<advVars, fbVars>>

\* lines 117-119
GenFetchReturn ==
    /\ gen_pc = "fetch_sample"
    /\ sample_pc = "returned"
    /\ itinerary' = make_itinerary(groups)
    /\ SampleDone
    /\ candidate_tasks' = <<>>
    /\ gen_pc' = "fetched"
    /\ UNCHANGED <<destination, duration, start_location, requests_sent, received,
                   ui, top_fallback_list, top_global_pool>>
    /\ UNCHANGED <<advVars, poolVars, fbVars>>

\* line 414, the live itinerary is not empty
GenLive ==
    /\ gen_pc = "fetched"
    /\ itinerary # <<>>
    /\ gen_pc' = "annotate"
    /\ UNCHANGED <<destination, duration, start_location, requests_sent, received,
                   ui, candidate_tasks, top_fallback_list, top_global_pool, itinerary>>
    /\ UNCHANGED <<advVars, poolVars, sampleVars, fbVars>>

\* lines 414-416, the live itinerary is empty
GenDegrade ==
    /\ gen_pc = "fetched"
    /\ itinerary = <<>>
    /\ ui' = Append(ui, WarningMessage)
    /\ candidate_tasks' = <<>>
    /\ CallFallback(destination)
    /\ gen_pc' = "top_fallback"
    /\ UNCHANGED <<destination, duration, start_location, requests_sent, received,
                   top_fallback_list, top_global_pool, itinerary>>
    /\ UNCHANGED <<advVars, poolVars, sampleVars>>

\* lines 408-409 and 416-417
GenTopPool ==
    /\ gen_pc = "top_fallback"
    /\ fb_pc = "returned"
    /\ top_fallback_list' = fb_result
    /\ CallPool(candidate_tasks, fb_result, duration * 3)
    /\ FallbackDone
    /\ gen_pc' = "top_pool"
    /\ UNCHANGED <<destination, duration, start_location, requests_sent, received,
                   ui, candidate_tasks, top_global_pool, itinerary>>
    /\ UNCHANGED <<advVars, sampleVars>>

\* lines 409-410 and 417-418
GenTopSample ==
    /\ gen_pc = "top_pool"
    /\ pool_pc = "returned"
    /\ top_global_pool' = unique_tasks
    /\ CallSample(unique_tasks, duration)
    /\ PoolDone
    /\ gen_pc' = "top_sample"
    /\ UNCHANGED <<destination, duration, start_location, requests_sent, received,
                   ui, candidate_tasks, top_fallback_list, itinerary>>
    /\ UNCHANGED <<advVars, fbVars>>

\* lines 410-411 and 418-419
GenTopItinerary ==
    /\ gen_pc = "top_sample"
    /\ sample_pc = "returned"
    /\ itinerary' = make_itinerary(groups)
    /\ SampleDone
    /\ gen_pc' = "annotate"
    /\ UNCHANGED <<destination, duration, start_location, requests_sent, received,
                   ui, candidate_tasks, top_fallback_list, top_global_pool>>
    /\ UNCHANGED <<advVars, poolVars, fbVars>>

\* lines 421-442, with the form's starting location, budget and travel month,
\* which these lines are the first to read
GenFinish(start, b, m) ==
    /\ gen_pc = "annotate"
    /\ start_location' = start
    /\ itinerary' = add_budget_tip(add_flights(itinerary, start, destination), b)
    /\ budget' = b
    /\ budget_tip' = get_budget_tip(b)
    /\ adv_destination' = destination
    /\ month' = m
    /\ weather' = get_travel_advice(destination, m)[1]
    /\ language' = get_travel_advice(destination, m)[2]
    /\ gen_pc' = "done"
    /\ UNCHANGED <<destination, duration, requests_sent, received, ui,
                   candidate_tasks, top_fallback_list, top_global_pool>>
    /\ UNCHANGED <<poolVars, sampleVars, fbVars>>

\* PadRaise and SampleRaise are left out: get_fallback_list never returns an
\* empty list (its loop runs at least once) and every pool holds duration * 3
\* strings.
NextGen ==
    \/ GenPreset
    \/ \E a \in Answers : GenFetchFail(a)
    \/ \E a \in Answers : GenFetchOk(a)
    \/ GenFetchPool
    \/ GenFetchSample
    \/ GenFetchReturn
    \/ GenLive
    \/ GenDegrade
    \/ GenTopPool
    \/ GenTopSample
    \/ GenTopItinerary
    \/ \E start \in StartLocations, b \in GenBudgets, m \in GenMonths :
           GenFinish(start, b, m)
    \/ \E d \in GenDraws : FallbackDraw(d[1], d[2])
    \/ FallbackReturn
    \/ PoolDedup
    \/ \E i \in 1..Len(fallback_list) : PadPick(i)
    \/ PoolReturn
    \/ \E i \in 1..Len(global_pool) : SampleDraw(i)
    \/ SampleSplit

SpecGen == GenInit /\ [][NextGen]_vars

-----------------------------------------------------------------------------
(* Claims about the handler *)

Reported(kind) == \E i \in 1..Len(ui) : ui[i][1] = kind

\* The fetch failed by a network error, a non-2xx status or a body that is not
\* JSON.
FetchFailed ==
    \/ received.status \in {"network_error", "http_error"}
    \/ received.status = "ok" /\ received.shape = "not_json"

InsideFetch == gen_pc \in {"fetch_fallback", "fetch_pool", "fetch_sample"}

\* The lines the handler adds to the sampled activities.
AnnotationLines ==
    { <<"Take a flight from ">> \o start_location \o <<" to ">> \o destination \o <<".">>,
      <<"Take a flight from ">> \o destination \o <<" back to ">> \o start_location \o <<".">>,
      <<"Budget Tip: ">> \o budget_tip }

SampledOf(day) ==
    IF gen_pc = "done"
    THEN {day.Activities[i] : i \in 1..Len(day.Activities)} \ AnnotationLines
    ELSE {day.Activities[i] : i \in 1..Len(day.Activities)}

\* C3: when the fetch for a non-preset destination fails (network error, non-2xx
\* status, body that is not JSON), exactly one request was sent, an error is
\* reported, fetch_itinerary_from_wiki returns the empty itinerary, the handler
\* then calls create_global_pool with no candidates, and every sampled activity
\* of every day is a string of the fallback list.
C3_DegradeToSynthetic ==
    /\ requests_sent <= 1
    /\ FetchFailed =>
        /\ destination \notin preset_destinations
        /\ requests_sent = 1
        /\ Reported("error")
        /\ ~InsideFetch
        /\ gen_pc = "fetched" => itinerary = <<>>
        /\ gen_pc # "fetched" => Reported("warning")
        /\ pool_pc # "idle" => (tasks = <<>> /\ fallback_list = top_fallback_list)
        /\ gen_pc \in {"annotate", "done"} =>
            /\ Len(itinerary) = duration
            /\ \A d \in 1..Len(itinerary) :
                /\ Cardinality(SampledOf(itinerary[d])) = 3
                /\ SampledOf(itinerary[d]) \subseteq Range(top_fallback_list)

\* The handler has finished after a network error.
C3_Witness ==
    /\ gen_pc = "done"
    /\ received.status = "network_error"
    /\ Len(itinerary) = 1
    /\ Len(itinerary[1].Activities) >= 4

\* The body's second element is a list of suggestion strings.
Conforming(a) ==
    /\ a.shape = "array"
    /\ a.type = "array"
    /\ \A i \in 1..Len(a.elems) : a.elems[i] # NumberValue

\* C4: a received body that is not an array whose second element is a list of
\* suggestion strings is treated as a fetch failure: an error is reported, the
\* fetch returns the empty itinerary, and no part of the body is an activity.
C4_NonConformingIsFailure ==
    (received.status = "ok" /\ ~Conforming(received)) =>
        /\ Reported("error")
        /\ ~InsideFetch
        /\ gen_pc = "fetched" => itinerary = <<>>
        /\ \A d \in 1..Len(itinerary) :
            Range(itinerary[d].Activities) \cap Range(received.elems) = {}

Blank(s) == \A i \in 1..Len(s) : s[i] = " "

SameLetter(c, e) ==
    \/ c = e
    \/ \E i \in 1..Len(UpperCase) : {c, e} = {UpperCase[i], LowerCase[i]}

EqualIgnoringCase(s, t) ==
    /\ Len(s) = Len(t)
    /\ \A i \in 1..Len(s) : SameLetter(s[i], t[i])

\* C5: the step that annotates the itinerary keeps the 3 sampled activities of
\* every day and ends every day with the budget-tip line; when the starting
\* location is not blank and differs from the destination ignoring case, it puts
\* the departure line first on day 1 and the return line just before the
\* budget-tip line on the last day (day 1 itself when the trip has one day);
\* otherwise it adds no flight line.
C5_Annotations ==
    [][(gen_pc = "annotate" /\ gen_pc' = "done") =>
        LET flights == ~Blank(start_location')
                          /\ ~EqualIgnoringCase(start_location', destination)
            dep == <<"Take a flight from ">> \o start_location' \o <<" to ">>
                       \o destination \o <<".">>
            ret == <<"Take a flight from ">> \o destination \o <<" back to ">>
                       \o start_location' \o <<".">>
            tip == <<"Budget Tip: ">> \o get_budget_tip(budget')
            n == Len(itinerary)
        IN  /\ n = duration
            /\ Len(itinerary') = n
            /\ \A d \in 1..n :
                /\ itinerary'[d].Day = d
                /\ Len(itinerary[d].Activities) = 3
                /\ itinerary'[d].Activities =
                       (IF flights /\ d = 1 THEN <<dep>> ELSE <<>>)
                           \o itinerary[d].Activities
                           \o (IF flights /\ d = n THEN <<ret>> ELSE <<>>)
                           \o <<tip>>
    ]_vars

\* A one-day trip from another city has been annotated: departure line first,
\* return line and budget tip last.
C5_Witness ==
    /\ gen_pc = "done"
    /\ duration = 1
    /\ start_location = Pune
    /\ Len(itinerary[1].Activities) = 6
    /\ itinerary[1].Activities[1] = departure_message(Pune, destination)

\* C10: every call of create_global_pool the handler makes is given a fallback
\* list with enough fresh strings to bring the pool up to duration * 3.
C10_FallbackLargeEnough ==
    (gen_pc \in {"fetch_pool", "top_pool"} /\ pool_pc \in {"dedup", "pad"}) =>
        ~Insufficient

====
